---- MODULE Spec2Model ----
(***************************************************************************)
(* State-machine model of app.js: a page that loads a review dataset,      *)
(* picks a random review, classifies it with a local transformers.js       *)
(* pipeline, renders the sentiment and posts a usage log entry.            *)
(*                                                                         *)
(* JavaScript values are tagged records; strings are sequences of          *)
(* one-character strings, so that trim() and toUpperCase() are computed.   *)
(* Scores are integers in units of 1/10000 (5000 stands for 0.5).          *)
(***************************************************************************)
EXTENDS Integers, Sequences, FiniteSets, TLC

\* ------------------------------------------------------------------ bounds
MaxRows == 2            \* rows of the parsed dataset
MaxPendingLogs == 2     \* log requests in flight at once

\* -------------------------------------------------------- JavaScript values
Undefined == [type |-> "undefined"]
Null == [type |-> "null"]
StringVal(s) == [type |-> "string", chars |-> s]
NumberVal(n) == [type |-> "number", units |-> n]
ObjectVal(l, s) == [type |-> "object", label |-> l, score |-> s]
ArrayVal(items) == [type |-> "array", items |-> items]

IsArray(v) == v.type = "array"
IsString(v) == v.type = "string"
IsNumber(v) == v.type = "number"
\* `sentimentData && typeof sentimentData === "object"`
IsNonNullObject(v) == v.type = "object"

\* ----------------------------------------------------------------- strings
EmptyString == << >>
Whitespace == {" "}

RECURSIVE TrimStart(_)
TrimStart(s) ==
  IF s # << >> /\ Head(s) \in Whitespace THEN TrimStart(Tail(s)) ELSE s

RECURSIVE TrimEnd(_)
TrimEnd(s) ==
  IF s # << >> /\ s[Len(s)] \in Whitespace
  THEN TrimEnd(SubSeq(s, 1, Len(s) - 1))
  ELSE s

\* String.prototype.trim
Trim(s) == TrimEnd(TrimStart(s))

LowerCaseLetters ==
  << "a", "b", "c", "d", "e", "f", "g", "h", "i", "j", "k", "l", "m",
     "n", "o", "p", "q", "r", "s", "t", "u", "v", "w", "x", "y", "z" >>
UpperCaseLetters ==
  << "A", "B", "C", "D", "E", "F", "G", "H", "I", "J", "K", "L", "M",
     "N", "O", "P", "Q", "R", "S", "T", "U", "V", "W", "X", "Y", "Z" >>

UpperChar(c) ==
  IF \E i \in 1..Len(LowerCaseLetters) : LowerCaseLetters[i] = c
  THEN UpperCaseLetters[CHOOSE i \in 1..Len(LowerCaseLetters) : LowerCaseLetters[i] = c]
  ELSE c

\* String.prototype.toUpperCase
ToUpperCase(s) == [i \in 1..Len(s) |-> UpperChar(s[i])]

POSITIVE == << "P", "O", "S", "I", "T", "I", "V", "E" >>
NEGATIVE == << "N", "E", "G", "A", "T", "I", "V", "E" >>
NEUTRAL == << "N", "E", "U", "T", "R", "A", "L" >>

\* --------------------------------------------------------------- constants
Half == 5000            \* 0.5 in units of 1/10000

\* (score * 100).toFixed(1): tenths of a percent, rounded to nearest
ToFixed1(units) == (units + 5) \div 10
DefaultScore == Half    \* `let score = 0.5`

\* ---------------------------------------------------------- pure functions
\* A filter that forgets the trim test
KeepTextAnyString(text) == IsString(text)

\* The filter of loadReviews: the text column is a string with a non-blank trim
KeepText(text) == IsString(text) /\ Trim(text.chars) # EmptyString

\* results.data.map(row => row.text).filter(...)
FilterReviews(rows) ==
  LET texts == [i \in 1..Len(rows) |-> rows[i].text]
      kept == SelectSeq(texts, KeepText)
  IN [i \in 1..Len(kept) |-> kept[i].chars]

\* getSentimentIcon
GetSentimentIcon(sentiment) ==
  CASE sentiment = "positive" -> "fa-thumbs-up"
    [] sentiment = "negative" -> "fa-thumbs-down"
    [] OTHER -> "fa-question-circle"

\* result[0][0] of a result that passed the shape test
FirstElement(result) == result.items[1].items[1]

HasSentimentData(result) ==
  /\ IsArray(result)
  /\ Len(result.items) > 0
  /\ IsArray(result.items[1])
  /\ Len(result.items[1].items) > 0

\* displaySentiment with the threshold comparisons written as >=
DisplaySentimentAtLeastHalf(result) ==
  LET parsed == HasSentimentData(result) /\ IsNonNullObject(FirstElement(result))
      sentimentData == FirstElement(result)
      label == IF parsed /\ IsString(sentimentData.label)
               THEN ToUpperCase(sentimentData.label.chars)
               ELSE NEUTRAL
      score == IF parsed /\ IsNumber(sentimentData.score)
               THEN sentimentData.score.units
               ELSE DefaultScore
      sentiment == IF parsed /\ label = POSITIVE /\ score >= Half THEN "positive"
                   ELSE IF parsed /\ label = NEGATIVE /\ score >= Half THEN "negative"
                   ELSE "neutral"
  IN [sentiment |-> label, confidence |-> score, sentimentBucket |-> sentiment]

\* The bucket, label and score displaySentiment computes and returns
DisplaySentiment(result) ==
  LET parsed == HasSentimentData(result) /\ IsNonNullObject(FirstElement(result))
      sentimentData == FirstElement(result)
      label == IF parsed /\ IsString(sentimentData.label)
               THEN ToUpperCase(sentimentData.label.chars)
               ELSE NEUTRAL
      score == IF parsed /\ IsNumber(sentimentData.score)
               THEN sentimentData.score.units
               ELSE DefaultScore
      sentiment == IF parsed /\ label = POSITIVE /\ score > Half THEN "positive"
                   ELSE IF parsed /\ label = NEGATIVE /\ score > Half THEN "negative"
                   ELSE "neutral"
  IN [sentiment |-> label, confidence |-> score, sentimentBucket |-> sentiment]

\* What displaySentiment writes into the result element
RenderedResult(result) ==
  LET d == DisplaySentiment(result)
  IN [bucket |-> d.sentimentBucket,
      html |-> [icon |-> GetSentimentIcon(d.sentimentBucket),
                label |-> d.sentiment,
                percent |-> ToFixed1(d.confidence)]]

\* The result element after `innerHTML = ""; className = "sentiment-result"`
ClearedResult == [bucket |-> "none", html |-> Null]

\* The part of logToGoogleSheets before the fetch throws a TypeError
LogBuildThrows(result) ==
  LET sentimentData == FirstElement(result)
  IN \/ sentimentData.type # "object"
     \/ ~IsString(sentimentData.label)

\* (score * 100).toFixed(1) + "%", "NaN%" for a score that is no number
ConfidenceText(score) ==
  IF IsNumber(score) THEN [type |-> "percent", tenths |-> ToFixed1(score.units)]
  ELSE [type |-> "NaN"]

\* The entry logToGoogleSheets posts
LogEntry(review, result) ==
  LET sentimentData == FirstElement(result)
  IN [review |-> review,
      sentiment |-> [label |-> ToUpperCase(sentimentData.label.chars),
                     confidence |-> ConfidenceText(sentimentData.score)],
      review_length |-> Len(review)]

\* ------------------------------------------------------------------ inputs
\* Values of a parsed row's text column
TextColumnValues ==
  { Undefined, StringVal(<< >>), StringVal(<< " " >>),
    StringVal(<< "a" >>), StringVal(<< " ", "a" >>) }

Rows == { [text |-> v] : v \in TextColumnValues }
Datasets == UNION { [1..n -> Rows] : n \in 0..MaxRows }

\* What the user can type into the token field
TokenInputs == { << >>, << " " >>, << "t" >>, << " ", "t" >> }

LabelValues ==
  { Undefined, StringVal(POSITIVE), StringVal(NEGATIVE), StringVal(NEUTRAL),
    StringVal(<< "p", "o", "s", "i", "t", "i", "v", "e" >>) }
ScoreValues == { Undefined, NumberVal(Half), NumberVal(5006) }

\* What a call of the pipeline can resolve with
PipelineOutputs ==
  { Undefined, ArrayVal(<< >>), ArrayVal(<< Null >>) }
    \cup { ArrayVal(<< ObjectVal(l, s) >>) : l \in LabelValues, s \in ScoreValues }

\* error.message of a rejected pipeline call
ErrorMessages == { "", "inference failed" }

\* ------------------------------------------------------------------- state
VARIABLES
  reviews,            \* let reviews
  apiToken,           \* let apiToken
  sentimentPipeline,  \* let sentimentPipeline
  currentReview,      \* let currentReview
  localStorage,       \* the item "hfApiToken" of the persistence store
  apiTokenInput,      \* apiTokenInput.value
  reviewText,         \* reviewText.textContent
  sentimentResult,    \* class and innerHTML of the result element
  loading,            \* loadingElement.style.display = "block"
  btnDisabled,        \* analyzeBtn.disabled
  errorVisible,       \* errorElement.style.display = "block"
  errorText,          \* errorElement.textContent
  status,             \* statusElement.textContent
  loadpc,             \* position of loadReviews
  modelpc,            \* position of initSentimentModel
  pending,            \* reviews of the pipeline calls in flight
  chain,              \* the promise chain of analyzeRandomReview that is running
  logPending,         \* number of log requests whose fetch is in flight
  lastTyped,          \* history: the last string the user entered as token
  reloadedSinceSave,  \* history: the page was reloaded after that entry
  renderedFor,        \* history: the review whose result the element shows
  event               \* history: the handler that ran last, with its input

globals == << reviews, apiToken, sentimentPipeline, currentReview >>
dom == << apiTokenInput, reviewText, sentimentResult, loading, btnDisabled,
          errorVisible, errorText, status >>
tasks == << loadpc, modelpc, pending, chain, logPending >>
history == << lastTyped, reloadedSinceSave, renderedFor, event >>
vars == << globals, localStorage, dom, tasks, history >>

Pipeline == [type |-> "function"]
Event(name) == [name |-> name]
LogEvent(outcome) == [name |-> "logToGoogleSheets", outcome |-> outcome]
otherHistory == << lastTyped, reloadedSinceSave, renderedFor >>
Idle == [pc |-> "idle"]

Message(text, detail) == [text |-> text, detail |-> detail]
NoMessage == Message("", "")
NoReviewsMessage == Message("No reviews available. Please try again later.", "")
NotReadyMessage ==
  Message("Sentiment model is not ready yet. Please wait a moment.", "")
InvalidOutputMessage == Message("Invalid sentiment output from local model.", "")
AnalyzeFailedMessage == Message("Failed to analyze sentiment.", "")
ModelFailedMessage ==
  Message("Failed to load sentiment model. Please check your network connection and try again.", "")

\* A load handler that does not copy the stored item into memory
SavedTokenNotRestored(stored) == EmptyString

\* `if (savedToken)`: the stored item when it is a non-empty string
SavedToken(stored) ==
  IF IsString(stored) /\ stored.chars # EmptyString THEN stored.chars ELSE EmptyString

\* The page right after the DOMContentLoaded handler ran against `stored`: the
\* globals as declared, loadReviews and initSentimentModel started, and the
\* elements as the markup is taken to deliver them (empty, hidden, enabled)
PageLoaded(stored) ==
  [reviews |-> << >>,
   apiToken |-> SavedToken(stored),
   sentimentPipeline |-> Null,
   currentReview |-> EmptyString,
   apiTokenInput |-> SavedToken(stored),
   reviewText |-> EmptyString,
   sentimentResult |-> ClearedResult,
   loading |-> FALSE,
   btnDisabled |-> FALSE,
   errorVisible |-> FALSE,
   errorText |-> NoMessage,
   status |-> "Loading sentiment model...",
   loadpc |-> "fetching",
   modelpc |-> "loading"]

Init ==
  LET p == PageLoaded(Null)
  IN /\ reviews = p.reviews
     /\ apiToken = p.apiToken
     /\ sentimentPipeline = p.sentimentPipeline
     /\ currentReview = p.currentReview
     /\ localStorage = Null
     /\ apiTokenInput = p.apiTokenInput
     /\ reviewText = p.reviewText
     /\ sentimentResult = p.sentimentResult
     /\ loading = p.loading
     /\ btnDisabled = p.btnDisabled
     /\ errorVisible = p.errorVisible
     /\ errorText = p.errorText
     /\ status = p.status
     /\ loadpc = p.loadpc
     /\ modelpc = p.modelpc
     /\ pending = << >>
     /\ chain = Idle
     /\ logPending = 0
     /\ lastTyped = Null
     /\ reloadedSinceSave = FALSE
     /\ renderedFor = Null
     /\ event = Event("DOMContentLoaded")

\* A task of the event loop starts only when no promise reaction is queued
TaskMayRun == chain.pc = "idle"

\* showError
ShowError(message) == errorText' = message /\ errorVisible' = TRUE

\* hideError
HideError == errorVisible' = FALSE

\* The user reloads the page: memory and DOM are rebuilt, the store survives
Reload ==
  LET p == PageLoaded(localStorage)
  IN /\ TaskMayRun
     /\ reviews' = p.reviews
     /\ apiToken' = p.apiToken
     /\ sentimentPipeline' = p.sentimentPipeline
     /\ currentReview' = p.currentReview
     /\ apiTokenInput' = p.apiTokenInput
     /\ reviewText' = p.reviewText
     /\ sentimentResult' = p.sentimentResult
     /\ loading' = p.loading
     /\ btnDisabled' = p.btnDisabled
     /\ errorVisible' = p.errorVisible
     /\ errorText' = p.errorText
     /\ status' = p.status
     /\ loadpc' = p.loadpc
     /\ modelpc' = p.modelpc
     /\ pending' = << >>
     /\ chain' = Idle
     /\ logPending' = 0
     /\ reloadedSinceSave' = (lastTyped # Null)
     /\ renderedFor' = Null
     /\ event' = Event("DOMContentLoaded")
     /\ UNCHANGED << localStorage, lastTyped >>

\* ------------------------------------------------------------- loadReviews
\* fetch succeeded and Papa.parse called `complete` with the parsed rows
LoadReviewsComplete(rows) ==
  /\ TaskMayRun
  /\ loadpc = "fetching"
  /\ reviews' = FilterReviews(rows)
  /\ loadpc' = "done"
  /\ event' = [name |-> "loadReviews", rows |-> rows]
  /\ UNCHANGED << apiToken, sentimentPipeline, currentReview, localStorage, dom,
                  modelpc, pending, chain, logPending, otherHistory >>

\* Papa.parse called `error`
LoadReviewsParseError(message) ==
  /\ TaskMayRun
  /\ loadpc = "fetching"
  /\ ShowError(Message("Failed to parse TSV file: ", message))
  /\ loadpc' = "failed"
  /\ event' = Event("loadReviews failed")
  /\ UNCHANGED << globals, localStorage, apiTokenInput, reviewText, sentimentResult,
                  loading, btnDisabled, status, modelpc, pending, chain, logPending,
                  otherHistory >>

\* the fetch failed, the response was not ok, or a callback threw
LoadReviewsFailed(message) ==
  /\ TaskMayRun
  /\ loadpc = "fetching"
  /\ ShowError(Message("Failed to load TSV file: ", message))
  /\ loadpc' = "failed"
  /\ event' = Event("loadReviews failed")
  /\ UNCHANGED << globals, localStorage, apiTokenInput, reviewText, sentimentResult,
                  loading, btnDisabled, status, modelpc, pending, chain, logPending,
                  otherHistory >>

\* ------------------------------------------------------ initSentimentModel
InitSentimentModelReady ==
  /\ TaskMayRun
  /\ modelpc = "loading"
  /\ sentimentPipeline' = Pipeline
  /\ status' = "Sentiment model ready"
  /\ modelpc' = "ready"
  /\ event' = Event("initSentimentModel")
  /\ UNCHANGED << reviews, apiToken, currentReview, localStorage, apiTokenInput,
                  reviewText, sentimentResult, loading, btnDisabled, errorVisible,
                  errorText, loadpc, pending, chain, logPending, otherHistory >>

InitSentimentModelFailed ==
  /\ TaskMayRun
  /\ modelpc = "loading"
  /\ ShowError(ModelFailedMessage)
  /\ status' = "Model load failed"
  /\ modelpc' = "failed"
  /\ event' = Event("initSentimentModel failed")
  /\ UNCHANGED << globals, localStorage, apiTokenInput, reviewText, sentimentResult,
                  loading, btnDisabled, loadpc, pending, chain, logPending, otherHistory >>

\* ------------------------------------------------------------ saveApiToken
\* What saveApiToken leaves in the store for the trimmed token
StoredItem(token) == IF token # EmptyString THEN StringVal(token) ELSE Null

\* The user changes the token field to `typed`; the change handler runs
SaveApiToken(typed) ==
  /\ TaskMayRun
  /\ typed # apiTokenInput
  /\ apiTokenInput' = typed
  /\ apiToken' = Trim(typed)
  /\ localStorage' = StoredItem(Trim(typed))
  /\ lastTyped' = StringVal(typed)
  /\ reloadedSinceSave' = FALSE
  /\ event' = Event("saveApiToken")
  /\ UNCHANGED << reviews, sentimentPipeline, currentReview, reviewText,
                  sentimentResult, loading, btnDisabled, errorVisible, errorText,
                  status, tasks, renderedFor >>

\* ------------------------------------------------------ analyzeRandomReview
\* A loading state that leaves the button enabled
ShowLoadingStateButtonEnabled ==
  /\ loading' = TRUE
  /\ btnDisabled' = btnDisabled
  /\ sentimentResult' = ClearedResult
  /\ renderedFor' = Null

\* A loading state that leaves the previous result in the result element
ShowLoadingStateKeepsResult ==
  /\ loading' = TRUE
  /\ btnDisabled' = TRUE
  /\ UNCHANGED << sentimentResult, renderedFor >>

\* "Show loading state"
ShowLoadingState ==
  /\ loading' = TRUE
  /\ btnDisabled' = TRUE
  /\ sentimentResult' = ClearedResult
  /\ renderedFor' = Null

\* The guard with the model test taking precedence over it
NoReviewsAfterModelTest == Len(reviews) = 0 /\ sentimentPipeline # Null

\* `!Array.isArray(reviews) || reviews.length === 0`; reviews is always an array
NoReviews == Len(reviews) = 0

\* A click on the analyze button; a disabled button dispatches no click
AnalyzeRandomReview ==
  /\ TaskMayRun
  /\ ~btnDisabled
  /\ event' = Event("analyzeRandomReview")
  /\ IF NoReviews
     THEN /\ ShowError(NoReviewsMessage)
          /\ UNCHANGED << globals, localStorage, apiTokenInput, reviewText,
                          sentimentResult, loading, btnDisabled, status, tasks,
                          otherHistory >>
     ELSE IF sentimentPipeline = Null
     THEN /\ ShowError(NotReadyMessage)
          /\ UNCHANGED << globals, localStorage, apiTokenInput, reviewText,
                          sentimentResult, loading, btnDisabled, status, tasks,
                          otherHistory >>
     ELSE /\ logPending < MaxPendingLogs
          /\ \E i \in 1..Len(reviews) :
               /\ currentReview' = reviews[i]
               /\ reviewText' = reviews[i]
               /\ pending' = Append(pending, reviews[i])
          /\ HideError
          /\ ShowLoadingState
          /\ UNCHANGED << reviews, apiToken, sentimentPipeline, localStorage,
                          apiTokenInput, errorText, status, loadpc, modelpc, chain,
                          logPending, lastTyped, reloadedSinceSave >>

Remove(seq, i) == SubSeq(seq, 1, i - 1) \o SubSeq(seq, i + 1, Len(seq))

\* analyzeSentiment after `await sentimentPipeline(text)` resolved with `output`
AnalyzeSentimentResolved(i, output) ==
  /\ TaskMayRun
  /\ i \in 1..Len(pending)
  /\ pending' = Remove(pending, i)
  /\ chain' = IF IsArray(output) /\ Len(output.items) > 0
              THEN [pc |-> "then1", review |-> pending[i], settled |-> "fulfilled",
                    value |-> ArrayVal(<< output >>)]
              ELSE [pc |-> "catch", review |-> pending[i], settled |-> "rejected",
                    value |-> InvalidOutputMessage]
  /\ event' = Event("analyzeSentiment")
  /\ UNCHANGED << globals, localStorage, dom, loadpc, modelpc, logPending, otherHistory >>

\* the pipeline call rejected with an Error whose message is `message`
AnalyzeSentimentRejected(i, message) ==
  /\ TaskMayRun
  /\ i \in 1..Len(pending)
  /\ pending' = Remove(pending, i)
  /\ chain' = [pc |-> "catch", review |-> pending[i], settled |-> "rejected",
               value |-> Message(message, "")]
  /\ event' = Event("analyzeSentiment")
  /\ UNCHANGED << globals, localStorage, dom, loadpc, modelpc, logPending, otherHistory >>

\* .then((result) => { displaySentiment(result); return result; })
ThenDisplaySentiment ==
  /\ chain.pc = "then1"
  /\ sentimentResult' = RenderedResult(chain.value)
  /\ renderedFor' = StringVal(chain.review)
  /\ chain' = [chain EXCEPT !.pc = "then2"]
  /\ event' = Event("displaySentiment")
  /\ UNCHANGED << globals, localStorage, apiTokenInput, reviewText, loading,
                  btnDisabled, errorVisible, errorText, status, loadpc, modelpc,
                  pending, logPending, lastTyped, reloadedSinceSave >>

\* .then((result) => { logToGoogleSheets(selectedReview, result); }), up to
\* the first await of logToGoogleSheets
ThenLogToGoogleSheets ==
  /\ chain.pc = "then2"
  /\ IF LogBuildThrows(chain.value)
     THEN event' = LogEvent("build failed") /\ UNCHANGED logPending
     ELSE /\ logPending' = logPending + 1
          /\ event' = [name |-> "logToGoogleSheets", outcome |-> "sent",
                       entry |-> LogEntry(chain.review, chain.value)]
  /\ chain' = [chain EXCEPT !.pc = "finally"]
  /\ UNCHANGED << globals, localStorage, dom, loadpc, modelpc, pending, otherHistory >>

\* A catch handler that also posts a log entry for the failed analysis
CatchErrorLogs ==
  /\ chain.pc = "catch"
  /\ ShowError(IF chain.value.text # "" THEN chain.value ELSE AnalyzeFailedMessage)
  /\ chain' = [chain EXCEPT !.pc = "finally"]
  /\ logPending' = logPending + 1
  /\ event' = Event("catch")
  /\ UNCHANGED << globals, localStorage, apiTokenInput, reviewText, sentimentResult,
                  loading, btnDisabled, status, loadpc, modelpc, pending,
                  otherHistory >>

\* .catch((error) => { showError(error.message || "Failed to analyze sentiment."); })
CatchError ==
  /\ chain.pc = "catch"
  /\ ShowError(IF chain.value.text # "" THEN chain.value ELSE AnalyzeFailedMessage)
  /\ chain' = [chain EXCEPT !.pc = "finally"]
  /\ event' = Event("catch")
  /\ UNCHANGED << globals, localStorage, apiTokenInput, reviewText, sentimentResult,
                  loading, btnDisabled, status, loadpc, modelpc, pending, logPending,
                  otherHistory >>

\* The loading state cleared in a .then instead of the .finally
FinallyOnlyOnSuccess ==
  /\ chain.pc = "finally"
  /\ loading' = (chain.settled = "rejected" /\ loading)
  /\ btnDisabled' = (chain.settled = "rejected" /\ btnDisabled)
  /\ chain' = Idle
  /\ event' = [name |-> "finally", settled |-> chain.settled]
  /\ UNCHANGED << globals, localStorage, apiTokenInput, reviewText, sentimentResult,
                  errorVisible, errorText, status, loadpc, modelpc, pending,
                  logPending, otherHistory >>

\* .finally(() => { ... })
Finally ==
  /\ chain.pc = "finally"
  /\ loading' = FALSE
  /\ btnDisabled' = FALSE
  /\ chain' = Idle
  /\ event' = [name |-> "finally", settled |-> chain.settled]
  /\ UNCHANGED << globals, localStorage, apiTokenInput, reviewText, sentimentResult,
                  errorVisible, errorText, status, loadpc, modelpc, pending,
                  logPending, otherHistory >>

\* A logger whose catch block shows the failure to the user
LogFetchSettledSurfacing(ok) ==
  /\ TaskMayRun
  /\ logPending > 0
  /\ logPending' = logPending - 1
  /\ event' = LogEvent(IF ok THEN "delivered" ELSE "failed")
  /\ IF ok THEN UNCHANGED << errorVisible, errorText >>
     ELSE ShowError(Message("Error logging to Google Sheets:", ""))
  /\ UNCHANGED << globals, localStorage, apiTokenInput, reviewText, sentimentResult,
                  loading, btnDisabled, status, loadpc, modelpc, pending, chain,
                  otherHistory >>

\* the fetch of logToGoogleSheets settled; a rejection is caught and logged
LogFetchSettled(ok) ==
  /\ TaskMayRun
  /\ logPending > 0
  /\ logPending' = logPending - 1
  /\ event' = LogEvent(IF ok THEN "delivered" ELSE "failed")
  /\ UNCHANGED << globals, localStorage, dom, loadpc, modelpc, pending, chain,
                  otherHistory >>

\* ----------------------------------------------------------- specification
LoadErrorMessages == { "Failed to load TSV file" }

Next ==
  \/ Reload
  \/ \E rows \in Datasets : LoadReviewsComplete(rows)
  \/ \E m \in LoadErrorMessages : LoadReviewsParseError(m)
  \/ \E m \in LoadErrorMessages : LoadReviewsFailed(m)
  \/ InitSentimentModelReady
  \/ InitSentimentModelFailed
  \/ \E typed \in TokenInputs : SaveApiToken(typed)
  \/ AnalyzeRandomReview
  \/ \E i \in 1..Len(pending), output \in PipelineOutputs :
       AnalyzeSentimentResolved(i, output)
  \/ \E i \in 1..Len(pending), m \in ErrorMessages : AnalyzeSentimentRejected(i, m)
  \/ ThenDisplaySentiment
  \/ ThenLogToGoogleSheets
  \/ CatchError
  \/ Finally
  \/ \E ok \in BOOLEAN : LogFetchSettled(ok)

Spec == Init /\ [][Next]_vars

\* The promise reactions run to completion, and the pipeline call is assumed
\* to settle: the code sets no timeout of its own.
AnalyzeSentimentSettles ==
  \/ \E i \in 1..Len(pending), output \in PipelineOutputs :
       AnalyzeSentimentResolved(i, output)
  \/ \E i \in 1..Len(pending), m \in ErrorMessages : AnalyzeSentimentRejected(i, m)

FairSpec ==
  /\ Spec
  /\ WF_vars(AnalyzeSentimentSettles)
  /\ WF_vars(ThenDisplaySentiment)
  /\ WF_vars(ThenLogToGoogleSheets)
  /\ WF_vars(CatchError)
  /\ WF_vars(Finally)

\* ------------------------------------------------------------------ claims
\* The result the running chain carries has a string label and a numeric score
LabelledResult ==
  /\ chain.pc = "then2"
  /\ FirstElement(chain.value).type = "object"
  /\ IsString(FirstElement(chain.value).label)
  /\ IsNumber(FirstElement(chain.value).score)

\* C1, as stated: right after displaySentiment rendered a result whose first
\* element has label L and score s, the bucket is positive iff L = POSITIVE and
\* s > 0.5, negative iff L = NEGATIVE and s > 0.5, and neutral otherwise.
C1_BucketByLabel ==
  LabelledResult =>
    LET L == FirstElement(chain.value).label.chars
        s == FirstElement(chain.value).score.units
        bucket == sentimentResult.bucket
    IN /\ bucket = "positive" <=> (L = POSITIVE /\ s > Half)
       /\ bucket = "negative" <=> (L = NEGATIVE /\ s > Half)
       /\ bucket = "neutral" <=> ~(L \in {POSITIVE, NEGATIVE} /\ s > Half)

\* C1, amended: the same with the label compared after upper-casing it.
C1_BucketByUpperCasedLabel ==
  LabelledResult =>
    LET L == FirstElement(chain.value).label.chars
        U == [i \in 1..Len(L) |-> UpperChar(L[i])]
        s == FirstElement(chain.value).score.units
        bucket == sentimentResult.bucket
    IN /\ bucket = "positive" <=> (U = POSITIVE /\ s > Half)
       /\ bucket = "negative" <=> (U = NEGATIVE /\ s > Half)
       /\ bucket = "neutral" <=> ~(U \in {POSITIVE, NEGATIVE} /\ s > Half)
       /\ bucket \in {"positive", "negative", "neutral"}

C1_Witness ==
  /\ LabelledResult
  /\ FirstElement(chain.value).label.chars # POSITIVE
  /\ FirstElement(chain.value).score.units > Half
  /\ sentimentResult.bucket = "positive"

\* The first element of a list payload lacks a string label or a numeric score
MalformedFirstElement(output) ==
  \/ output.items[1].type # "object"
  \/ ~IsString(output.items[1].label)
  \/ ~IsNumber(output.items[1].score)

\* The payload the running chain settled with was empty or malformed
MalformedPayload ==
  \/ chain.settled = "rejected" /\ chain.value = InvalidOutputMessage
  \/ chain.settled = "fulfilled" /\ MalformedFirstElement(chain.value.items[1])

\* C2: when the classification call returned an empty or malformed payload, the
\* analysis ends with the classification-failed error visible and the result
\* display not updated.
C2_MalformedPayloadSurfacesError ==
  (chain.pc = "finally" /\ MalformedPayload) =>
    /\ errorVisible
    /\ errorText = InvalidOutputMessage
    /\ sentimentResult = ClearedResult

\* A step in which the logging of a classified review fails
LogFailureStep ==
  /\ event'.name = "logToGoogleSheets"
  /\ event'.outcome \in {"build failed", "failed"}
  /\ \/ chain.pc = "then2"
     \/ logPending' < logPending

\* C3: a failure of the logging call, while building or while sending the
\* entry, leaves the displayed sentiment unchanged and shows no error.
C3_LogFailureIsSilent ==
  [][LogFailureStep =>
       /\ UNCHANGED << sentimentResult, reviewText, errorVisible, errorText >>
       /\ (chain.pc = "then2" => sentimentResult.html # Null /\ ~errorVisible)]_vars

C3_Witness ==
  /\ event.name = "logToGoogleSheets"
  /\ event.outcome = "failed"
  /\ sentimentResult.html # Null
  /\ ~errorVisible

InReviews(text) == \E i \in 1..Len(reviews) : reviews[i] = text

\* C4: a selected review is an element of the loaded sequence; a click while
\* the sequence is empty ends with the "no reviews" error visible, no review
\* selected and no classification call started.
C4_SelectionFromLoadedReviews ==
  /\ currentReview # EmptyString => InReviews(currentReview)
  /\ \A i \in 1..Len(pending) : InReviews(pending[i])
  /\ chain.pc # "idle" => InReviews(chain.review)
  /\ (event.name = "analyzeRandomReview" /\ Len(reviews) = 0) =>
       /\ errorVisible
       /\ errorText = NoReviewsMessage
       /\ currentReview = EmptyString
       /\ reviewText = EmptyString
       /\ pending = << >>
       /\ chain = Idle
       /\ ~btnDisabled
       /\ ~loading

C4_Witness ==
  /\ event.name = "analyzeRandomReview"
  /\ Len(reviews) = 0
  /\ loadpc = "done"
  /\ sentimentPipeline # Null
  /\ errorVisible

\* C5, as stated: after saving t and reloading, the in-memory credential is t.
C5_TokenRoundTripsExactly ==
  reloadedSinceSave => apiToken = lastTyped.chars

\* C5, amended: after saving t and reloading, the in-memory credential is t
\* with its leading and trailing whitespace removed.
C5_TokenRoundTripsTrimmed ==
  reloadedSinceSave =>
    apiToken = Trim(lastTyped.chars)

C5_Witness ==
  /\ reloadedSinceSave
  /\ lastTyped.chars = << " ", "t" >>
  /\ apiToken = << "t" >>
  /\ event.name = "DOMContentLoaded"

\* The texts of the rows whose text column is a string longer than `threshold`
RECURSIVE LongerThan(_, _)
LongerThan(rows, threshold) ==
  IF rows = << >> THEN << >>
  ELSE LET text == Head(rows).text
       IN (IF text.type = "string" /\ Len(text.chars) > threshold
           THEN << text.chars >> ELSE << >>) \o LongerThan(Tail(rows), threshold)

\* C6, as stated: for some minimum length threshold, the loaded sequence holds
\* exactly the texts of the rows whose text is a string longer than it.
C6_LoadsRowsOverThreshold ==
  event.name = "loadReviews" =>
    \E threshold \in 0..3 : reviews = LongerThan(event.rows, threshold)

\* The texts of the rows whose text column holds a character that is no whitespace
RECURSIVE NonBlankTexts(_)
NonBlankTexts(rows) ==
  IF rows = << >> THEN << >>
  ELSE LET text == Head(rows).text
       IN (IF text.type = "string"
              /\ \E i \in 1..Len(text.chars) : text.chars[i] \notin Whitespace
           THEN << text.chars >> ELSE << >>) \o NonBlankTexts(Tail(rows))

\* C6, amended: the loaded sequence holds exactly the texts, untrimmed and in
\* dataset order, of the rows whose text column is a string that is not blank.
C6_LoadsNonBlankRows ==
  event.name = "loadReviews" =>
    /\ reviews = NonBlankTexts(event.rows)
    /\ Len(reviews) =
         Cardinality({ i \in 1..Len(event.rows) :
                         /\ event.rows[i].text.type = "string"
                         /\ \E j \in 1..Len(event.rows[i].text.chars) :
                              event.rows[i].text.chars[j] # " " })

C6_Witness ==
  /\ event.name = "loadReviews"
  /\ Len(event.rows) = 2
  /\ event.rows[1].text = StringVal(<< " " >>)
  /\ event.rows[2].text = StringVal(<< " ", "a" >>)
  /\ reviews = << << " ", "a" >> >>

AnalysisStarted == btnDisabled /\ loading
AnalysisFinished == ~btnDisabled /\ ~loading

\* C7: an analysis that started eventually finishes with the loading indicator
\* hidden and the button enabled; when the classification failed, the error is
\* visible at that point and no further classification call is in flight.
C7_AnalysisFinishes ==
  /\ AnalysisStarted ~> AnalysisFinished
  /\ [][chain.pc = "finally" =>
          /\ AnalysisFinished'
          /\ chain.settled = "rejected" =>
               (errorVisible' /\ errorText' # NoMessage /\ pending' = << >>)]_vars

C7_Witness ==
  /\ event.name = "finally"
  /\ event.settled = "rejected"
  /\ AnalysisFinished
  /\ errorVisible
  /\ currentReview # EmptyString

\* C8: at most one classification call is in flight, and the button is
\* disabled from the start of a call until its chain has finished.
C8_OneCallInFlight ==
  /\ Len(pending) + (IF chain.pc = "idle" THEN 0 ELSE 1) <= 1
  /\ (pending # << >> \/ chain.pc # "idle") => btnDisabled

C8_Witness ==
  /\ Len(pending) = 1
  /\ btnDisabled
  /\ logPending > 0
  /\ sentimentResult = ClearedResult

\* C9: a log entry is sent only in the logging step of a chain whose
\* classification succeeded, after the sentiment of that chain's review was
\* rendered, once per chain; no other step sends one.
C9_LogAfterRender ==
  [][logPending' <= logPending
       \/ /\ chain.pc = "then2"
          /\ chain'.pc = "finally"
          /\ chain.settled = "fulfilled"
          /\ logPending' = logPending + 1
          /\ event'.outcome = "sent"
          /\ event'.entry.review = chain.review
          /\ reviewText = chain.review
          /\ renderedFor = StringVal(chain.review)
          /\ sentimentResult.html # Null
          /\ sentimentResult.html.label = event'.entry.sentiment.label]_vars

C9_Witness ==
  /\ event.name = "logToGoogleSheets"
  /\ event.outcome = "sent"
  /\ event.entry.review = reviewText
  /\ event.entry.sentiment.label = sentimentResult.html.label
  /\ logPending = 2

\* C10: a sentiment in the result display was rendered for the review text in
\* the review display, and the result display is empty while that review's
\* classification is pending or has failed.
C10_ResultMatchesReview ==
  /\ sentimentResult.html # Null =>
       /\ renderedFor = StringVal(reviewText)
       /\ pending = << >>
       /\ chain.pc \in {"idle", "then2", "finally"}
       /\ chain.pc # "idle" =>
            /\ chain.settled = "fulfilled"
            /\ chain.review = reviewText
            /\ sentimentResult = RenderedResult(chain.value)
  /\ sentimentResult.html = Null <=> sentimentResult = ClearedResult

C10_Witness ==
  /\ sentimentResult.html = Null
  /\ Len(pending) = 1
  /\ reviewText = pending[1]
  /\ logPending > 0
====
